---- MODULE Spec2Model ----
(***************************************************************************)
(* SKMA-FON monitoring module (src/kernel/monitoring_module.c).            *)
(*                                                                         *)
(* One kernel module: skma_fon_init allocates and seeds the store and      *)
(* registers /proc/optifiber/myinfo, a self re-arming timer                *)
(* (update_stats_timer) rewrites the per-site records field by field,      *)
(* proc_show prints them field by field, proc_mmap maps the store into a   *)
(* caller, skma_fon_exit stops the timer, unregisters and frees.           *)
(*                                                                         *)
(* The module takes no lock anywhere, so every store to and every load     *)
(* from sites_data is a step of its own.  Site indices are 1..NUM_SITES    *)
(* here (0..NUM_SITES-1 in the source).  utilization is kept in            *)
(* hundredths of a percent, the precision proc_show prints ("%.2f").       *)
(* Sizes are in bytes.  Stores made by a user process through a granted    *)
(* mapping are outside the module and are not modelled.                    *)
(***************************************************************************)
EXTENDS Integers, Sequences, FiniteSets, TLC

\* ---------------------------------------------------------------- constants
NUM_SITES == 4
PAGE_SIZE == 4096
BUFFER_SIZE == 4 * PAGE_SIZE
\* a u32 is kept as <<high half, low half>>, each 0..HALF-1, so that the full
\* 32-bit width is there without a number beyond TLC's 32-bit integers
HALF == 65536
U32Zero == <<0, 0>>
EINVAL == 22
EAGAIN == 11
ENOMEM == 12

\* ------------------------------------------------------------------- bounds
\* ticks the timer may fire in one run
MaxTicks == 2
\* mmap requests are 1..MaxReqPages pages long
MaxReqPages == 5
\* read() calls the reader issues in one run
MaxReads == 1
\* mmap requests are at file offsets of 0..MaxPgoff pages
MaxPgoff == 1

\* values get_random_bytes may deliver into rand_val: 2399 gives the largest
\* throughput (1999) and the largest increments (2 and 1).  The three draws of
\* each site are independent, so a second value multiplies the records of one
\* tick by 8^NUM_SITES.
RandVals == {2399}

\* values ktime_get_real_seconds may return.  It reads CLOCK_REALTIME, which
\* advances with time and which settimeofday or an NTP step may set back
\* between any two reads, so one read does not constrain the next.
WallClock == {0, 1}

Sites == 1..NUM_SITES

site_names == <<"MicrosoftDC", "Dallas", "Dobbins", "Stone">>

\* struct site_stats (reserved[] is never touched after the memset)
ZeroStats ==
    [site_name |-> "", timestamp |-> 0, throughput_gbps |-> 0,
     error_count |-> U32Zero, ber_errors |-> U32Zero, link_status |-> 0,
     utilization |-> 0]

\* the order in which proc_show prints the fields of one site
ShowFields ==
    <<"site_name", "timestamp", "throughput_gbps", "error_count", "ber_errors",
      "utilization", "link_status">>

VARIABLES
    pc,             \* position of module load/unload (skma_fon_init, skma_fon_exit)
    init_ret,       \* return value of skma_fon_init, once it has returned
    shared_buffer,  \* "NULL", "valid" (allocated), "freed" (dangling after kfree)
    kfree_calls,    \* number of kfree(shared_buffer) calls made
    sites_data,     \* the records in the store
    proc_dir,       \* "NULL", "registered", "removed": /proc/optifiber
    proc_entry,     \* "NULL", "registered", "removed": /proc/optifiber/myinfo
    exit_in_tick,   \* history: skma_fon_exit was called while a tick was running
    update_timer,   \* "idle" or "pending"
    tick_pc,        \* statement update_stats_timer is about to execute, or "idle"
    tick_i,         \* loop index of update_stats_timer
    tick_old,       \* history: record tick_i as it was before this tick touched it
    tick_written,   \* history: fields of each site stored by the current tick
    ticks,          \* timer callbacks started
    ticks_done,     \* timer callbacks that returned
    rd_pc,          \* reader: "closed", "open", "show" (inside proc_show)
    rd_i,           \* loop index of proc_show
    rd_f,           \* fields of site rd_i already printed
    rd_cur,         \* the values printed for site rd_i
    rd_cand,        \* history: whole states record rd_i had while being printed
    reads,          \* read() calls issued
    vma_size,       \* bytes of the store mapped into the mapper, 0 when none
    mmap_req,       \* size of the last mmap request
    mmap_ret,       \* return value of the last proc_mmap call
    mmap_calls,     \* 1 once proc_mmap has been called
    mmap_pgoff,     \* vm_pgoff (file offset in pages) of the last mmap request
    vma_pfn         \* first page mapped, counted from the page of shared_buffer

lifecycle ==
    <<pc, init_ret, shared_buffer, kfree_calls, proc_dir, proc_entry, exit_in_tick>>
timer ==
    <<update_timer, tick_pc, tick_i, tick_old, tick_written, ticks, ticks_done>>
reader == <<rd_pc, rd_i, rd_f, rd_cur, rd_cand, reads>>
mapper == <<vma_size, mmap_req, mmap_ret, mmap_calls, mmap_pgoff, vma_pfn>>
vars == <<lifecycle, timer, reader, mapper, sites_data>>

\* ------------------------------------------------------------ pure helpers
\* line 65: 800 + (rand_val % 1200)
Throughput(rand_val) == 800 + (rand_val % 1200)

\* u32 addition x + d, d < HALF: wraps at 2^32
U32Add(x, d) ==
    LET lo == x[2] + d
    IN  <<(x[1] + (lo \div HALF)) % HALF, lo % HALF>>

\* x <= y on u32 values
U32Leq(x, y) == x[1] < y[1] \/ (x[1] = y[1] /\ x[2] <= y[2])

\* line 69: u32 error_count += rand_val % 3
AddErrors(error_count, rand_val) == U32Add(error_count, rand_val % 3)

\* line 73: u32 ber_errors += rand_val % 2
AddBerErrors(ber_errors, rand_val) == U32Add(ber_errors, rand_val % 2)

\* line 76: (throughput_gbps / 2000.0) * 100, in hundredths of a percent
Utilization(throughput_gbps) == (throughput_gbps * 100 * 100) \div 2000

\* lines 163-170: the seeded record of site i at wall-clock time now
SeedStats(i, now) ==
    [site_name |-> site_names[i], timestamp |-> now, throughput_gbps |-> 1000,
     error_count |-> U32Zero, ber_errors |-> U32Zero, link_status |-> 1,
     utilization |-> 5000]

Init ==
    /\ pc = "unloaded"
    /\ init_ret = 0
    /\ shared_buffer = "NULL"
    /\ kfree_calls = 0
    /\ sites_data = [i \in Sites |-> ZeroStats]
    /\ proc_dir = "NULL"
    /\ proc_entry = "NULL"
    /\ exit_in_tick = FALSE
    /\ update_timer = "idle"
    /\ tick_pc = "idle"
    /\ tick_i = 1
    /\ tick_old = ZeroStats
    /\ tick_written = [i \in Sites |-> 0]
    /\ ticks = 0
    /\ ticks_done = 0
    /\ rd_pc = "closed"
    /\ rd_i = 1
    /\ rd_f = 0
    /\ rd_cur = ZeroStats
    /\ rd_cand = {}
    /\ reads = 0
    /\ vma_size = 0
    /\ mmap_req = 0
    /\ mmap_ret = 0
    /\ mmap_calls = 0
    /\ mmap_pgoff = 0
    /\ vma_pfn = 0

\* ---------------------------------------------------------- skma_fon_init
\* lines 151-155: kmalloc succeeds or fails
InitAlloc ==
    /\ pc = "unloaded"
    /\ \/ /\ shared_buffer' = "valid"
          /\ pc' = "init_seed"
          /\ UNCHANGED init_ret
       \/ /\ init_ret' = -ENOMEM
          /\ pc' = "init_failed"
          /\ UNCHANGED shared_buffer
    /\ UNCHANGED <<kfree_calls, proc_dir, proc_entry, exit_in_tick, timer, reader,
                   mapper, sites_data>>

\* lines 158-171: memset, then seed every record (nothing else can reach the
\* store yet, so the loop is one step)
InitSeed ==
    /\ pc = "init_seed"
    /\ \E now \in WallClock : sites_data' = [i \in Sites |-> SeedStats(i, now)]
    /\ pc' = "init_mkdir"
    /\ UNCHANGED <<init_ret, shared_buffer, kfree_calls, proc_dir, proc_entry,
                   exit_in_tick, timer, reader, mapper>>

\* InitMkdir with the kfree of line 177 forgotten
InitMkdirLeak ==
    /\ pc = "init_mkdir"
    /\ \/ /\ proc_dir' = "registered"
          /\ pc' = "init_create"
          /\ UNCHANGED init_ret
       \/ /\ init_ret' = -ENOMEM
          /\ pc' = "init_failed"
          /\ UNCHANGED proc_dir
    /\ UNCHANGED <<shared_buffer, kfree_calls, proc_entry, exit_in_tick, timer,
                   reader, mapper, sites_data>>

\* lines 174-179: proc_mkdir succeeds, or fails and the store is freed
InitMkdir ==
    /\ pc = "init_mkdir"
    /\ \/ /\ proc_dir' = "registered"
          /\ pc' = "init_create"
          /\ UNCHANGED <<init_ret, shared_buffer, kfree_calls>>
       \/ /\ shared_buffer' = "freed"
          /\ kfree_calls' = kfree_calls + 1
          /\ init_ret' = -ENOMEM
          /\ pc' = "init_failed"
          /\ UNCHANGED proc_dir
    /\ UNCHANGED <<proc_entry, exit_in_tick, timer, reader, mapper, sites_data>>

\* InitCreate with the remove_proc_entry of line 185 forgotten
InitCreateKeepDir ==
    /\ pc = "init_create"
    /\ \/ /\ proc_entry' = "registered"
          /\ pc' = "init_timer"
          /\ UNCHANGED <<init_ret, shared_buffer, kfree_calls>>
       \/ /\ shared_buffer' = "freed"
          /\ kfree_calls' = kfree_calls + 1
          /\ init_ret' = -ENOMEM
          /\ pc' = "init_failed"
          /\ UNCHANGED proc_entry
    /\ UNCHANGED <<proc_dir, exit_in_tick, timer, reader, mapper, sites_data>>

\* lines 182-188: proc_create succeeds, or fails and init unwinds
InitCreate ==
    /\ pc = "init_create"
    /\ \/ /\ proc_entry' = "registered"
          /\ pc' = "init_timer"
          /\ UNCHANGED <<init_ret, shared_buffer, kfree_calls, proc_dir>>
       \/ /\ proc_dir' = "removed"
          /\ shared_buffer' = "freed"
          /\ kfree_calls' = kfree_calls + 1
          /\ init_ret' = -ENOMEM
          /\ pc' = "init_failed"
          /\ UNCHANGED proc_entry
    /\ UNCHANGED <<exit_in_tick, timer, reader, mapper, sites_data>>

\* lines 191-198: timer_setup, mod_timer, return 0
InitTimer ==
    /\ pc = "init_timer"
    /\ update_timer' = "pending"
    /\ init_ret' = 0
    /\ pc' = "loaded"
    /\ UNCHANGED <<shared_buffer, kfree_calls, proc_dir, proc_entry,
                   exit_in_tick, tick_pc, tick_i, tick_old, tick_written, ticks,
                   ticks_done,
                   reader, mapper, sites_data>>

\* ----------------------------------------------------- update_stats_timer
\* TimerFire of a timer that stays on the wheel while its callback runs
TimerFireKeepPending ==
    /\ update_timer = "pending"
    /\ tick_pc = "idle"
    /\ ticks < MaxTicks
    /\ tick_pc' = "timestamp"
    /\ tick_i' = 1
    /\ ticks' = ticks + 1
    /\ tick_written' = [i \in Sites |-> 0]
    /\ UNCHANGED <<lifecycle, update_timer, tick_old, ticks_done, reader, mapper,
                   sites_data>>

\* the timer expires: the kernel detaches it and calls update_stats_timer
TimerFire ==
    /\ update_timer = "pending"
    /\ tick_pc = "idle"
    /\ ticks < MaxTicks
    /\ update_timer' = "idle"
    /\ tick_pc' = "timestamp"
    /\ tick_i' = 1
    /\ ticks' = ticks + 1
    /\ tick_written' = [i \in Sites |-> 0]
    /\ UNCHANGED <<lifecycle, tick_old, ticks_done, reader, mapper, sites_data>>

\* TickStore on a record cleared first: the store of v into field f leaves
\* the other fields of sites_data[tick_i], its name among them, zeroed
TickStoreFromZero(f, v, next) ==
    /\ sites_data' = [sites_data EXCEPT ![tick_i] = [ZeroStats EXCEPT ![f] = v]]
    /\ tick_written' = [tick_written EXCEPT ![tick_i] = @ + 1]
    /\ tick_pc' = next
    /\ UNCHANGED <<lifecycle, update_timer, tick_i, ticks, ticks_done, rd_pc,
                   rd_i, rd_f, rd_cur, reads, mapper>>

\* a store of v into field f of sites_data[tick_i], then on to statement next
TickStore(f, v, next) ==
    /\ sites_data' = [sites_data EXCEPT ![tick_i][f] = v]
    /\ tick_written' = [tick_written EXCEPT ![tick_i] = @ + 1]
    /\ tick_pc' = next
    /\ UNCHANGED <<lifecycle, update_timer, tick_i, ticks, ticks_done, rd_pc,
                   rd_i, rd_f, rd_cur, reads, mapper>>

\* line 61
TickTimestamp ==
    /\ tick_pc = "timestamp"
    /\ tick_old' = sites_data[tick_i]
    /\ \E now \in WallClock : TickStore("timestamp", now, "throughput_gbps")
    /\ UNCHANGED rd_cand

\* lines 64-65
TickThroughput ==
    /\ tick_pc = "throughput_gbps"
    /\ \E rand_val \in RandVals :
          TickStore("throughput_gbps", Throughput(rand_val), "error_count")
    /\ UNCHANGED <<tick_old, rd_cand>>

\* lines 68-69
TickErrorCount ==
    /\ tick_pc = "error_count"
    /\ \E rand_val \in RandVals :
          TickStore("error_count",
                    AddErrors(sites_data[tick_i].error_count, rand_val),
                    "ber_errors")
    /\ UNCHANGED <<tick_old, rd_cand>>

\* lines 72-73
TickBerErrors ==
    /\ tick_pc = "ber_errors"
    /\ \E rand_val \in RandVals :
          TickStore("ber_errors",
                    AddBerErrors(sites_data[tick_i].ber_errors, rand_val),
                    "utilization")
    /\ UNCHANGED <<tick_old, rd_cand>>

\* line 76
TickUtilization ==
    /\ tick_pc = "utilization"
    /\ TickStore("utilization",
                 Utilization(sites_data[tick_i].throughput_gbps), "link_status")
    /\ UNCHANGED <<tick_old, rd_cand>>

\* TickLinkStatus with the store of line 79 left out: the loop moves on with
\* link_status of site tick_i not written
TickLinkStatusNoStore ==
    /\ tick_pc = "link_status"
    /\ IF tick_i < NUM_SITES
          THEN tick_pc' = "timestamp" /\ tick_i' = tick_i + 1
          ELSE tick_pc' = "mod_timer" /\ UNCHANGED tick_i
    /\ rd_cand' = IF rd_pc = "show" /\ rd_i = tick_i
                     THEN rd_cand \cup {sites_data[tick_i]}
                     ELSE rd_cand
    /\ UNCHANGED <<lifecycle, update_timer, tick_old, tick_written, ticks,
                   ticks_done, rd_pc, rd_i, rd_f, rd_cur, reads, mapper,
                   sites_data>>

\* line 79 and the loop step of line 59; the record of site tick_i is now
\* whole again, which a reader printing that site may go on to see
TickLinkStatus ==
    /\ tick_pc = "link_status"
    /\ sites_data' = [sites_data EXCEPT ![tick_i].link_status = 1]
    /\ tick_written' = [tick_written EXCEPT ![tick_i] = @ + 1]
    /\ IF tick_i < NUM_SITES
          THEN tick_pc' = "timestamp" /\ tick_i' = tick_i + 1
          ELSE tick_pc' = "mod_timer" /\ UNCHANGED tick_i
    /\ rd_cand' = IF rd_pc = "show" /\ rd_i = tick_i
                     THEN rd_cand \cup {sites_data'[tick_i]}
                     ELSE rd_cand
    /\ UNCHANGED <<lifecycle, update_timer, tick_old, ticks, ticks_done, rd_pc,
                   rd_i, rd_f, rd_cur, reads, mapper>>

\* TickRearm with the mod_timer of line 83 left out: the callback returns and
\* the timer stays off the wheel
TickReturnNoRearm ==
    /\ tick_pc = "mod_timer"
    /\ tick_pc' = "idle"
    /\ ticks_done' = ticks_done + 1
    /\ UNCHANGED <<lifecycle, update_timer, tick_i, tick_old, tick_written, ticks,
                   reader, mapper, sites_data>>

\* line 83: mod_timer re-arms the timer, the callback returns
TickRearm ==
    /\ tick_pc = "mod_timer"
    /\ update_timer' = "pending"
    /\ tick_pc' = "idle"
    /\ ticks_done' = ticks_done + 1
    /\ UNCHANGED <<lifecycle, tick_i, tick_old, tick_written, ticks, reader,
                   mapper, sites_data>>

\* -------------------------------------------------- proc_open / proc_show
\* the record of site i in its last whole state: as it is, or as it was before
\* the tick that is part-way through it
WholeStats(i) ==
    IF tick_i = i /\ tick_pc \in {"throughput_gbps", "error_count", "ber_errors",
                                  "utilization", "link_status"}
       THEN tick_old
       ELSE sites_data[i]

\* lines 108-111: open() of the registered entry
ProcOpen ==
    /\ rd_pc = "closed"
    /\ proc_entry = "registered"
    /\ reads < MaxReads
    /\ rd_pc' = "open"
    /\ UNCHANGED <<lifecycle, timer, rd_i, rd_f, rd_cur, rd_cand, reads, mapper,
                   sites_data>>

\* read() enters seq_read -> proc_show (lines 91-94); procfs refuses the call
\* once the entry has been removed
ShowBegin ==
    /\ rd_pc = "open"
    /\ proc_entry = "registered"
    /\ reads < MaxReads
    /\ rd_pc' = "show"
    /\ rd_i' = 1
    /\ rd_f' = 0
    /\ rd_cur' = ZeroStats
    /\ rd_cand' = {WholeStats(1)}
    /\ reads' = reads + 1
    /\ UNCHANGED <<lifecycle, timer, mapper, sites_data>>

\* ShowField under a lock the Updater holds for the whole tick: the load waits
\* until no tick is running
ShowFieldLocked ==
    /\ rd_pc = "show"
    /\ tick_pc = "idle"
    /\ rd_f < Len(ShowFields)
    /\ LET f == ShowFields[rd_f + 1]
       IN  rd_cur' = [rd_cur EXCEPT ![f] = sites_data[rd_i][f]]
    /\ rd_f' = rd_f + 1
    /\ UNCHANGED <<lifecycle, timer, rd_pc, rd_i, rd_cand, reads, mapper,
                   sites_data>>

\* lines 95-101: one seq_printf loads one field of sites_data[rd_i]
ShowField ==
    /\ rd_pc = "show"
    /\ rd_f < Len(ShowFields)
    /\ LET f == ShowFields[rd_f + 1]
       IN  rd_cur' = [rd_cur EXCEPT ![f] = sites_data[rd_i][f]]
    /\ rd_f' = rd_f + 1
    /\ UNCHANGED <<lifecycle, timer, rd_pc, rd_i, rd_cand, reads, mapper,
                   sites_data>>

\* line 102 and the loop step of line 94, or the return of line 105
ShowNext ==
    /\ rd_pc = "show"
    /\ rd_f = Len(ShowFields)
    /\ IF rd_i < NUM_SITES
          THEN /\ rd_i' = rd_i + 1
               /\ rd_cand' = {WholeStats(rd_i + 1)}
               /\ UNCHANGED rd_pc
          ELSE /\ rd_pc' = "open"
               /\ rd_i' = 1
               /\ rd_cand' = {}
    /\ rd_f' = 0
    /\ rd_cur' = ZeroStats
    /\ UNCHANGED <<lifecycle, timer, reads, mapper, sites_data>>

\* single_release: close()
ProcRelease ==
    /\ rd_pc = "open"
    /\ rd_pc' = "closed"
    /\ UNCHANGED <<lifecycle, timer, rd_i, rd_f, rd_cur, rd_cand, reads, mapper,
                   sites_data>>

\* ----------------------------------------------------------------- proc_mmap
\* mmap lengths are whole pages
ReqSizes == {p * PAGE_SIZE : p \in 1..MaxReqPages}

\* ProcMmap with the test of line 119 written size >= BUFFER_SIZE
ProcMmapOffByOne(size) ==
    /\ proc_entry = "registered"
    /\ vma_size = 0
    /\ mmap_req' = size
    /\ \E pgoff \in 0..MaxPgoff : mmap_pgoff' = pgoff
    /\ mmap_calls' = 1
    /\ IF size >= BUFFER_SIZE
          THEN /\ mmap_ret' = -EINVAL
               /\ UNCHANGED <<vma_size, vma_pfn>>
          ELSE \/ /\ vma_size' = size
                  /\ vma_pfn' = 0
                  /\ mmap_ret' = 0
               \/ /\ mmap_ret' = -EAGAIN
                  /\ UNCHANGED <<vma_size, vma_pfn>>
    /\ UNCHANGED <<lifecycle, timer, reader, sites_data>>

\* ProcMmap with the size test of line 119 placed after remap_pfn_range, the
\* oversized request clipped to the store
ProcMmapLateCheck(size) ==
    /\ proc_entry = "registered"
    /\ vma_size = 0
    /\ mmap_req' = size
    /\ \E pgoff \in 0..MaxPgoff : mmap_pgoff' = pgoff
    /\ mmap_calls' = 1
    /\ IF size > BUFFER_SIZE
          THEN /\ mmap_ret' = -EINVAL
               /\ vma_size' = BUFFER_SIZE
               /\ vma_pfn' = 0
          ELSE \/ /\ vma_size' = size
                  /\ vma_pfn' = 0
                  /\ mmap_ret' = 0
               \/ /\ mmap_ret' = -EAGAIN
                  /\ UNCHANGED <<vma_size, vma_pfn>>
    /\ UNCHANGED <<lifecycle, timer, reader, sites_data>>

\* ProcMmap with the mapping started vm_pgoff pages into the store
ProcMmapUsePgoff(size) ==
    /\ proc_entry = "registered"
    /\ vma_size = 0
    /\ mmap_req' = size
    /\ mmap_calls' = 1
    /\ \E pgoff \in 0..MaxPgoff :
          /\ mmap_pgoff' = pgoff
          /\ IF size > BUFFER_SIZE
                THEN /\ mmap_ret' = -EINVAL
                     /\ UNCHANGED <<vma_size, vma_pfn>>
                ELSE \/ /\ vma_size' = size
                        /\ vma_pfn' = pgoff
                        /\ mmap_ret' = 0
                     \/ /\ mmap_ret' = -EAGAIN
                        /\ UNCHANGED <<vma_size, vma_pfn>>
    /\ UNCHANGED <<lifecycle, timer, reader, sites_data>>

\* lines 116-133, for a vma of `size` bytes at any file offset; the pfn of
\* line 124 is that of shared_buffer itself (a kmalloc of 4 pages is aligned
\* to its size), vma->vm_pgoff is not read; remap_pfn_range may fail
ProcMmap(size) ==
    /\ proc_entry = "registered"
    /\ vma_size = 0
    /\ mmap_req' = size
    /\ \E pgoff \in 0..MaxPgoff : mmap_pgoff' = pgoff
    /\ mmap_calls' = 1
    /\ IF size > BUFFER_SIZE
          THEN /\ mmap_ret' = -EINVAL
               /\ UNCHANGED <<vma_size, vma_pfn>>
          ELSE \/ /\ vma_size' = size
                  /\ vma_pfn' = 0
                  /\ mmap_ret' = 0
               \/ /\ mmap_ret' = -EAGAIN
                  /\ UNCHANGED <<vma_size, vma_pfn>>
    /\ UNCHANGED <<lifecycle, timer, reader, sites_data>>

\* the mapper unmaps (munmap or process exit)
Munmap ==
    /\ vma_size > 0
    /\ vma_size' = 0
    /\ vma_pfn' = 0
    /\ UNCHANGED <<mmap_req, mmap_ret, mmap_calls, mmap_pgoff, lifecycle, timer,
                   reader, sites_data>>

\* ------------------------------------------------------------ skma_fon_exit
\* rmmod calls skma_fon_exit (line 204)
ExitBegin ==
    /\ pc = "loaded"
    /\ pc' = "exit_del_timer"
    /\ exit_in_tick' = (tick_pc # "idle")
    /\ UNCHANGED <<init_ret, shared_buffer, kfree_calls, proc_dir, proc_entry,
                   timer, reader, mapper, sites_data>>

\* ExitDelTimerSync with del_timer in place of del_timer_sync: it does not
\* wait for a running callback
ExitDelTimerNoSync ==
    /\ pc = "exit_del_timer"
    /\ update_timer' = "idle"
    /\ pc' = "exit_remove_entry"
    /\ UNCHANGED <<init_ret, shared_buffer, kfree_calls, proc_dir, proc_entry,
                   exit_in_tick, tick_pc, tick_i, tick_old, tick_written, ticks,
                   ticks_done,
                   reader, mapper, sites_data>>

\* line 207: del_timer_sync waits until the callback is not running, then
\* takes the (possibly re-armed) timer off the wheel
ExitDelTimerSync ==
    /\ pc = "exit_del_timer"
    /\ tick_pc = "idle"
    /\ update_timer' = "idle"
    /\ pc' = "exit_remove_entry"
    /\ UNCHANGED <<init_ret, shared_buffer, kfree_calls, proc_dir, proc_entry,
                   exit_in_tick, tick_pc, tick_i, tick_old, tick_written, ticks,
                   ticks_done,
                   reader, mapper, sites_data>>

\* ExitRemoveEntry with the remove_proc_entry of line 211 left out
ExitKeepEntry ==
    /\ pc = "exit_remove_entry"
    /\ pc' = "exit_remove_dir"
    /\ UNCHANGED <<init_ret, shared_buffer, kfree_calls, proc_dir, proc_entry,
                   exit_in_tick, timer, reader, mapper, sites_data>>

\* ExitRemoveEntry waiting for the file to be closed, not for proc_show to
\* return
ExitRemoveEntryWaitsClose ==
    /\ pc = "exit_remove_entry"
    /\ rd_pc = "closed"
    /\ proc_entry' = IF proc_entry = "registered" THEN "removed" ELSE proc_entry
    /\ pc' = "exit_remove_dir"
    /\ UNCHANGED <<init_ret, shared_buffer, kfree_calls, proc_dir, exit_in_tick,
                   timer, reader, mapper, sites_data>>

\* lines 210-212: remove_proc_entry waits for calls in flight on the entry
\* (a proc_show still running) and refuses later ones
ExitRemoveEntry ==
    /\ pc = "exit_remove_entry"
    /\ rd_pc # "show"
    /\ proc_entry' = IF proc_entry = "registered" THEN "removed" ELSE proc_entry
    /\ pc' = "exit_remove_dir"
    /\ UNCHANGED <<init_ret, shared_buffer, kfree_calls, proc_dir, exit_in_tick,
                   timer, reader, mapper, sites_data>>

\* lines 213-215
ExitRemoveDir ==
    /\ pc = "exit_remove_dir"
    /\ proc_dir' = IF proc_dir = "registered" THEN "removed" ELSE proc_dir
    /\ pc' = "exit_kfree"
    /\ UNCHANGED <<init_ret, shared_buffer, kfree_calls, proc_entry,
                   exit_in_tick, timer, reader, mapper, sites_data>>

\* lines 218-222
ExitKfree ==
    /\ pc = "exit_kfree"
    /\ IF shared_buffer # "NULL"
          THEN shared_buffer' = "freed" /\ kfree_calls' = kfree_calls + 1
          ELSE UNCHANGED <<shared_buffer, kfree_calls>>
    /\ pc' = "unloaded_done"
    /\ UNCHANGED <<init_ret, proc_dir, proc_entry, exit_in_tick, timer, reader,
                   mapper, sites_data>>

\* module load
InitNext ==
    \/ InitAlloc
    \/ InitSeed
    \/ InitMkdir
    \/ InitCreate
    \/ InitTimer

\* module unload
ExitNext ==
    \/ ExitBegin
    \/ ExitDelTimerSync
    \/ ExitRemoveEntry
    \/ ExitRemoveDir
    \/ ExitKfree

ModuleNext == InitNext \/ ExitNext

\* the Updater
UpdaterNext ==
    \/ TimerFire
    \/ TickTimestamp
    \/ TickThroughput
    \/ TickErrorCount
    \/ TickBerErrors
    \/ TickUtilization
    \/ TickLinkStatus
    \/ TickRearm

\* a process reading /proc/optifiber/myinfo
ReaderNext ==
    \/ ProcOpen
    \/ ShowBegin
    \/ ShowField
    \/ ShowNext
    \/ ProcRelease

\* a process mapping /proc/optifiber/myinfo
MapperNext ==
    \/ \E size \in ReqSizes : ProcMmap(size)
    \/ Munmap

Next == ModuleNext \/ UpdaterNext \/ ReaderNext \/ MapperNext

\* the module with a reader and a mapper
Spec == Init /\ [][Next]_vars

\* the module being loaded and running, with a reader and no mapper
SpecReport == Init /\ [][InitNext \/ UpdaterNext \/ ReaderNext]_vars

\* the module from load to unload, with a mapper and no reader
SpecMap == Init /\ [][ModuleNext \/ UpdaterNext \/ MapperNext]_vars

\* the module from load to unload, with a reader and a mapper, while the
\* timer has not expired
SpecLifetime == Init /\ [][ModuleNext \/ ReaderNext \/ MapperNext]_vars

\* The loaded module after a long uptime.  Every tick adds 0..2 to error_count
\* and 0..1 to ber_errors, so every u32 value is reached in time; this starts
\* where the counters are within one tick of 2^32.  ticks and ticks_done count
\* from here.
NearWrap == {<<HALF - 1, HALF - 2>>, <<HALF - 1, HALF - 1>>}

InitUptime ==
    /\ pc = "loaded"
    /\ init_ret = 0
    /\ shared_buffer = "valid"
    /\ kfree_calls = 0
    /\ \E now \in WallClock, e \in NearWrap, b \in NearWrap :
          sites_data = [i \in Sites |->
                          [SeedStats(i, now) EXCEPT !.error_count = e,
                                                    !.ber_errors = b]]
    /\ proc_dir = "registered"
    /\ proc_entry = "registered"
    /\ exit_in_tick = FALSE
    /\ update_timer = "pending"
    /\ tick_pc = "idle"
    /\ tick_i = 1
    /\ tick_old = ZeroStats
    /\ tick_written = [i \in Sites |-> 0]
    /\ ticks = 0
    /\ ticks_done = 0
    /\ rd_pc = "closed"
    /\ rd_i = 1
    /\ rd_f = 0
    /\ rd_cur = ZeroStats
    /\ rd_cand = {}
    /\ reads = 0
    /\ vma_size = 0
    /\ mmap_req = 0
    /\ mmap_ret = 0
    /\ mmap_calls = 0
    /\ mmap_pgoff = 0
    /\ vma_pfn = 0

SpecUptime == InitUptime /\ [][UpdaterNext \/ ExitNext]_vars

\* -------------------------------------------------------- fair scheduling
\* An expired timer's callback is called and runs to its end.
UpdaterFairness == WF_vars(UpdaterNext)

\* proc_show, once called, runs to its end; open, read and close are up to
\* the user.
ReaderFairness == WF_vars(ShowField \/ ShowNext)

\* skma_fon_exit, once called, runs on.  del_timer_sync polls until it finds
\* the callback not running, and the callback runs for microseconds of each
\* one-second interval; remove_proc_entry refuses new calls while it waits
\* for those in flight: both get through even if what they wait for holds
\* only now and then (strong fairness).  rmmod itself is up to the user.
ExitFairness ==
    /\ SF_vars(ExitDelTimerSync)
    /\ SF_vars(ExitRemoveEntry)
    /\ WF_vars(ExitRemoveDir \/ ExitKfree)

\* the module from load to unload under fair scheduling
SpecRun ==
    Init /\ [][ModuleNext \/ UpdaterNext]_vars /\ UpdaterFairness /\ ExitFairness

\* lines 59-80, n times over: the record s after n whole ticks
RECURSIVE Ticked(_, _, _, _)
Ticked(s, n, rand_val, now) ==
    IF n = 0
       THEN s
       ELSE Ticked([s EXCEPT
                      !.timestamp = now,
                      !.throughput_gbps = Throughput(rand_val),
                      !.error_count = AddErrors(@, rand_val),
                      !.ber_errors = AddBerErrors(@, rand_val),
                      !.utilization = Utilization(Throughput(rand_val)),
                      !.link_status = 1],
                   n - 1, rand_val, now)

\* the loaded module with the timer armed after MaxTicks - 1 whole ticks,
\* nothing open or mapped
InitRunning ==
    /\ pc = "loaded"
    /\ init_ret = 0
    /\ shared_buffer = "valid"
    /\ kfree_calls = 0
    /\ proc_dir = "registered"
    /\ proc_entry = "registered"
    /\ exit_in_tick = FALSE
    /\ update_timer = "pending"
    /\ tick_pc = "idle"
    /\ ticks = MaxTicks - 1
    /\ ticks_done = MaxTicks - 1
    /\ \E now \in WallClock, rand_val \in RandVals :
          /\ sites_data = [i \in Sites |->
                             Ticked(SeedStats(i, now), ticks, rand_val, now)]
          /\ tick_old = IF ticks = 0
                           THEN ZeroStats
                           ELSE Ticked(SeedStats(NUM_SITES, now), ticks - 1,
                                       rand_val, now)
    /\ tick_i = IF ticks = 0 THEN 1 ELSE NUM_SITES
    /\ tick_written = [i \in Sites |-> IF ticks = 0 THEN 0
                                                    ELSE Len(ShowFields) - 1]
    /\ rd_pc = "closed"
    /\ rd_i = 1
    /\ rd_f = 0
    /\ rd_cur = ZeroStats
    /\ rd_cand = {}
    /\ reads = 0
    /\ vma_size = 0
    /\ mmap_req = 0
    /\ mmap_ret = 0
    /\ mmap_calls = 0
    /\ mmap_pgoff = 0
    /\ vma_pfn = 0

\* the running module with a reader, up to unload, under fair scheduling
SpecStop ==
    /\ InitRunning
    /\ [][UpdaterNext \/ ReaderNext \/ ExitNext]_vars
    /\ UpdaterFairness /\ ReaderFairness /\ ExitFairness

\* ==================================================================== claims

\* C1 (as claimed): whenever proc_show has printed all the fields of a site,
\* the values printed are one whole state of that record: the record as it
\* was before a concurrent tick's update of the site, or as it was after it.
NoTornRecord ==
    (rd_pc = "show" /\ rd_f = Len(ShowFields)) => rd_cur \in rd_cand

\* del_timer_sync of skma_fon_exit has returned
StopReturned ==
    pc \in {"exit_remove_entry", "exit_remove_dir", "exit_kfree", "unloaded_done"}

\* C2: once del_timer_sync has returned no tick is in progress, every tick that
\* started has run to its end, the timer is not armed, and from then on no tick
\* starts and no record changes.
StopIsSynchronous ==
    /\ [](StopReturned =>
             tick_pc = "idle" /\ update_timer = "idle" /\ ticks_done = ticks)
    /\ [][StopReturned => (sites_data' = sites_data /\ ticks' = ticks)]_vars

\* C2 witness: skma_fon_exit was called while a tick was running, and
\* del_timer_sync has returned after that tick re-armed the timer.
StopReturnedAfterTickInFlight ==
    StopReturned /\ exit_in_tick /\ ticks_done >= 1

\* C3 (as claimed): once skma_fon_exit has freed the store, no proc_show is
\* running and no mapping granted by proc_mmap is left.
NoUserAfterRelease ==
    (pc = "unloaded_done" /\ shared_buffer = "freed") =>
        (rd_pc # "show" /\ vma_size = 0)

\* C4 (as claimed): proc_mmap returns -EINVAL for every size above
\* BUFFER_SIZE and 0 for every size up to BUFFER_SIZE.
MmapSucceedsUpToBufferSize ==
    mmap_calls = 1 =>
        /\ mmap_req > BUFFER_SIZE => mmap_ret = -EINVAL
        /\ mmap_req <= BUFFER_SIZE => mmap_ret = 0

\* C4 (amended): proc_mmap returns -EINVAL exactly for the sizes above
\* BUFFER_SIZE; for a size up to BUFFER_SIZE it returns 0, or -EAGAIN when
\* remap_pfn_range fails; a mapping is held only after a return of 0 and is
\* as long as requested.
MmapSizeRule ==
    /\ mmap_calls = 1 =>
        /\ mmap_req > BUFFER_SIZE => mmap_ret = -EINVAL
        /\ mmap_req <= BUFFER_SIZE => mmap_ret \in {0, -EAGAIN}
    /\ vma_size > 0 =>
        mmap_ret = 0 /\ vma_size = mmap_req /\ vma_size <= BUFFER_SIZE

\* C4 witness: a request for exactly BUFFER_SIZE bytes has been granted.
MmapWholeStoreGranted ==
    mmap_calls = 1 /\ mmap_req = BUFFER_SIZE /\ mmap_ret = 0
        /\ vma_size = BUFFER_SIZE

\* C5: a proc_mmap call with a size above BUFFER_SIZE changes no record, not
\* the store pointer, not the timer, and leaves the caller without a mapping.
MmapRejectChangesNothing ==
    [][(\E size \in ReqSizes : size > BUFFER_SIZE /\ ProcMmap(size)) =>
          /\ UNCHANGED <<sites_data, shared_buffer, kfree_calls, timer>>
          /\ vma_size' = 0 /\ vma_size = 0]_vars

\* C5 witness: an oversized request has been rejected while the store held
\* the records of a finished tick.
MmapRejected ==
    mmap_calls = 1 /\ mmap_req > BUFFER_SIZE /\ mmap_ret = -EINVAL
        /\ ticks_done >= 1 /\ shared_buffer = "valid"

\* C6: the store is freed at most once; on every finished path that allocated
\* it (init aborted at proc_mkdir or proc_create, or init and exit) it has been
\* freed exactly once; and it is never freed while a tick is running or the
\* timer is armed.
StoreFreedOnce ==
    /\ kfree_calls <= 1
    /\ (kfree_calls = 1) <=> (shared_buffer = "freed")
    /\ (pc \in {"init_failed", "unloaded_done"} /\ shared_buffer # "NULL") =>
          kfree_calls = 1
    /\ shared_buffer = "freed" => (tick_pc = "idle" /\ update_timer = "idle")

\* C6 witness: the module was loaded, ticked, and was unloaded with the store
\* freed once.
UnloadedAfterTick ==
    pc = "unloaded_done" /\ kfree_calls = 1 /\ ticks_done >= 1

\* C7: when skma_fon_init has failed it has returned an error, nothing is
\* registered, the timer was never armed and no tick ran; after a failed
\* kmalloc there is no store and nothing was ever registered, after a failed
\* registration the store has been freed.
InitFailureUnwinds ==
    pc = "init_failed" =>
        /\ init_ret < 0
        /\ proc_dir # "registered" /\ proc_entry = "NULL"
        /\ update_timer = "idle" /\ ticks = 0
        /\ shared_buffer \in {"NULL", "freed"}
        /\ shared_buffer = "NULL" => (proc_dir = "NULL" /\ kfree_calls = 0)
        /\ shared_buffer = "freed" => kfree_calls = 1

\* C7 witness: init failed at proc_create, after the directory was made.
InitFailedAtCreate ==
    pc = "init_failed" /\ proc_dir = "removed" /\ shared_buffer = "freed"

\* C8 (as claimed): no step lowers error_count or ber_errors of any site.
CountersNeverDecrease ==
    [][\A i \in Sites :
          /\ U32Leq(sites_data[i].error_count, sites_data'[i].error_count)
          /\ U32Leq(sites_data[i].ber_errors, sites_data'[i].ber_errors)]_vars

\* C9 (as claimed): while the read surface is registered, every record's
\* utilization is the value computed from that record's throughput_gbps.
UtilizationMatchesThroughput ==
    proc_entry = "registered" =>
        \A i \in Sites :
            sites_data[i].utilization = Utilization(sites_data[i].throughput_gbps)

\* C10 (as claimed): no step lowers the timestamp of any record.
TimestampNeverDecreases ==
    [][\A i \in Sites : sites_data'[i].timestamp >= sites_data[i].timestamp]_vars

\* C11 (as claimed): when the first tick after seeding finishes a site, that
\* site's record was the seeded one before the tick, and now has
\* throughput_gbps in [800, 2000), utilization computed from it, error_count
\* and ber_errors each raised by 0..2, a timestamp not below the seeded one,
\* and link status UP.
FirstTickFromSeed ==
    [][(ticks = 1 /\ tick_pc = "link_status" /\ tick_pc' # "link_status") =>
          LET old == tick_old
              new == sites_data'[tick_i]
          IN  /\ \E now \in WallClock : old = SeedStats(tick_i, now)
              /\ new.site_name = site_names[tick_i]
              /\ new.throughput_gbps \in 800..1999
              /\ new.utilization = Utilization(new.throughput_gbps)
              /\ \E d \in 0..2 : new.error_count = U32Add(old.error_count, d)
              /\ \E d \in 0..2 : new.ber_errors = U32Add(old.ber_errors, d)
              /\ new.timestamp >= old.timestamp
              /\ new.link_status = 1]_vars

\* the store is allocated and seeded and not yet released
StoreSeeded == shared_buffer = "valid" /\ pc \notin {"unloaded", "init_seed"}

\* C12: from the end of seeding until the release the store holds NUM_SITES
\* records and record i carries site_names[i]: no tick and no mmap changes a
\* name or the number of records.
NamesNeverChange ==
    StoreSeeded =>
        /\ DOMAIN sites_data = Sites
        /\ \A i \in Sites : sites_data[i].site_name = site_names[i]

\* C12 witness: a whole tick has run over the seeded store and a mapping of it
\* has been granted.
NamesKeptAfterTickAndMmap ==
    StoreSeeded /\ ticks_done >= 1 /\ vma_size > 0

\* the callback update_stats_timer is executing
TickRunning == tick_pc # "idle"

\* C13: at most one execution of update_stats_timer is in progress: while the
\* callback runs the timer is off the wheel, so no second one can start; and
\* the store stays the one allocated by skma_fon_init from its return until
\* the kfree of skma_fon_exit.
SingleUpdater ==
    /\ ticks - ticks_done = IF TickRunning THEN 1 ELSE 0
    /\ TickRunning => update_timer = "idle"
    /\ pc \in {"loaded", "exit_del_timer", "exit_remove_entry", "exit_remove_dir",
               "exit_kfree"} => shared_buffer = "valid"

\* C13 witness: a tick is running that was started by the timer a previous
\* tick re-armed.
SecondTickRunning == TickRunning /\ ticks_done >= 1 /\ pc = "loaded"

\* number of stores a tick makes into one record (lines 61-79)
StoresPerSite == Len(ShowFields) - 1

UpdaterRunning == update_timer = "pending" \/ TickRunning

\* C15: the Updater runs only between the successful start and the stop of
\* skma_fon_exit, and once stopped it stays stopped; a tick that returns has
\* written every record in full and has re-armed the timer; under fair
\* scheduling a tick that began returns, and an armed timer leads to another
\* tick unless the Updater is stopped first.
UpdaterLifecycle ==
    /\ [](UpdaterRunning => pc \in {"loaded", "exit_del_timer"})
    /\ [][StopReturned => ~UpdaterRunning' /\ ticks' = ticks]_vars
    /\ [][(tick_pc = "mod_timer" /\ tick_pc' # "mod_timer") =>
             /\ \A i \in Sites : tick_written[i] = StoresPerSite
             /\ tick_pc' = "idle" /\ update_timer' = "pending"]_vars
    /\ TickRunning ~> (~TickRunning /\ ticks_done = ticks)
    /\ (update_timer = "pending" /\ ticks < MaxTicks) ~>
           (TickRunning \/ StopReturned)

\* C15 witness: two ticks have run, the second started by the timer the first
\* re-armed, and the timer is armed again.
RearmedAfterSecondTick ==
    ticks_done >= 2 /\ update_timer = "pending" /\ pc = "loaded"

\* C16: under fair scheduling every call of skma_fon_exit gets to its end:
\* the timer is stopped, the entries are removed and the store is freed,
\* whether the timer was armed or its callback running and whatever a reader
\* was doing.
ExitCompletes == (pc = "exit_del_timer") ~> (pc = "unloaded_done")

\* C16 witness: skma_fon_exit was called while a tick was running, has got
\* past del_timer_sync and now finds a proc_show in progress.
ExitPastTimerWithReaderInShow ==
    pc = "exit_remove_entry" /\ exit_in_tick /\ rd_pc = "show"

\* C17: no step of proc_show or proc_mmap changes the store; a proc_show in
\* progress can always take its next step and proc_mmap can always run,
\* whatever the tick is doing; a tick in progress can always take its next
\* step, whatever the reader is doing.
NoWritesNoWaiting ==
    /\ ~ENABLED ((ReaderNext \/ MapperNext) /\ sites_data' # sites_data)
    /\ rd_pc = "show" => ENABLED (ShowField \/ ShowNext)
    /\ (proc_entry = "registered" /\ vma_size = 0) =>
          \A size \in ReqSizes : ENABLED ProcMmap(size)
    /\ TickRunning => ENABLED UpdaterNext

\* C17 witness: proc_show is printing the record the tick is part-way through.
ShowDuringTickOfSameSite ==
    /\ rd_pc = "show" /\ rd_i = tick_i /\ rd_f \in 1..(Len(ShowFields) - 1)
    /\ tick_pc \in {"throughput_gbps", "error_count", "ber_errors", "utilization"}

\* C18: while the entry is registered or a proc_show is in progress the store
\* is allocated and every record of it is seeded: the entry is created after
\* the seeding and removed before the kfree.
ReadSurfaceOnSeededStore ==
    (proc_entry = "registered" \/ rd_pc = "show") =>
        /\ shared_buffer = "valid"
        /\ \E now \in WallClock : sites_data = [i \in Sites |-> SeedStats(i, now)]

\* C18 witness: a proc_show is on the last record and an mmap has been granted.
ShowAndMmapOnSeededStore ==
    rd_pc = "show" /\ rd_i = NUM_SITES /\ mmap_calls = 1 /\ vma_size > 0

\* C19: a granted mapping starts at the first page of the store, whatever
\* vm_pgoff was asked for, and ends within the store.
MappingWithinStore ==
    vma_size > 0 =>
        /\ vma_pfn = 0
        /\ vma_pfn * PAGE_SIZE + vma_size <= BUFFER_SIZE

\* C19 witness: a mapping of the whole store granted to a call with a nonzero
\* page offset.
MmapGrantedAtOffset ==
    vma_size = BUFFER_SIZE /\ mmap_pgoff > 0 /\ mmap_ret = 0
====
